---- MODULE Spec2Model ----
(***************************************************************************)
(* A state-machine model of GNSS_precision.py: main (argument validation,  *)
(* read_ublox, the precision scan, the accuracy report) and                *)
(* line_straightness (ideal line, squared residuals, RMSE, display         *)
(* tables).                                                                *)
(*                                                                         *)
(* Numbers.  Python floats are modelled as exact rationals <<num, den>>    *)
(* with den > 0, kept in lowest terms; rounding of IEEE doubles is outside *)
(* the model.  math.sqrt is kept symbolic: a root is represented by its    *)
(* radicand, and two roots are compared by comparing radicands (sqrt is    *)
(* strictly increasing on the non-negative reals and sqrt(x) = 0 iff       *)
(* x = 0).                                                                 *)
(*                                                                         *)
(* Data frames.  pandas DataFrames are objects on a heap: `frames` is the  *)
(* sequence of allocated frames, a Python variable holds an index into it  *)
(* (0 = not bound yet), DataFrame.copy() allocates a new frame, and        *)
(* .iloc[i, c] = v writes through the reference.  Rows are                 *)
(* <<Longitude, Latitude, Altitude>>, so iloc column c is tuple index c+1. *)
(***************************************************************************)
EXTENDS Integers, Sequences, FiniteSets, TLC

VARIABLES
    argv,                \* sys.argv: sequence of strings (sequences of characters)
    pc,                  \* position in main / line_straightness
    err,                 \* exception that ended the run ("none" while running)
    out,                 \* lines printed so far
    dwell_time_minutes,  \* main local
    line_length_meters,  \* main local
    frames,              \* heap of DataFrames
    file,                \* main: reference to the frame returned by read_ublox
    long, lat,           \* main: longitude / latitude lists of the stationary window
    all_combos,          \* main: list of [cord1, cord2] (+ distance once appended)
    maximum, minimum,    \* main: scan results
    loop,                \* main: the cords iterator and the loop counters
    ls,                  \* locals of line_straightness
    rmse,                \* value returned by line_straightness (radicand of the root)
    mono                 \* harness state of the sensitivity experiment (NoMono in main)

vars == <<argv, pc, err, out, dwell_time_minutes, line_length_meters, frames,
          file, long, lat, all_combos, maximum, minimum, loop, ls, rmse, mono>>

----------------------------------------------------------------------------
(* Bounds of the model *)

MaxLen == 3       \* longest body of coordinate lines drawn for a track file
MaxMonoLen == 4   \* longest perfectly linear track of the sensitivity experiment
MaxK == 2         \* largest |k| of the perpendicular offset k*p

(* Program constants *)

ArgCount == 4          \* len(argv) expected by main
MinDwell == 2          \* smallest accepted dwell time in minutes
TrimCount == 20        \* read_ublox drops the first 20 samples
WindowSize == 60       \* main takes the first 60 samples as the stationary window
FieldCount == 3        \* a coordinate line has three comma-separated fields
DegToKm == 111         \* deg_to_meter = 2*pi*6378137/360 = 111319.49 m, carried in km
LatHm == 1106          \* length of 1 degree of latitude at the equator, in 100 m
LonHm == 1113          \* length of 1 degree of longitude at the equator, in 100 m
HmToMeter == 100       \* metres per 100 m

----------------------------------------------------------------------------
(* Exact rational arithmetic standing for Python float arithmetic *)

Abs(n) == IF n < 0 THEN -n ELSE n

RECURSIVE GCD(_, _)
GCD(a, b) == IF b = 0 THEN a ELSE GCD(b, a % b)

LCM(a, b) == (a \div GCD(a, b)) * b

Norm(x) ==
    IF x[1] = 0 THEN <<0, 1>>
    ELSE LET g == GCD(Abs(x[1]), x[2])
         IN  <<(IF x[1] < 0 THEN -(Abs(x[1]) \div g) ELSE x[1] \div g), x[2] \div g>>

R(n) == <<n, 1>>

RAdd(x, y) ==
    LET l == LCM(x[2], y[2])
    IN  Norm(<<x[1] * (l \div x[2]) + y[1] * (l \div y[2]), l>>)

RNeg(x) == <<-x[1], x[2]>>

RSub(x, y) == RAdd(x, RNeg(y))

RMul(x, y) ==
    LET g1 == GCD(Abs(x[1]), y[2])
        g2 == GCD(Abs(y[1]), x[2])
        a  == IF x[1] = 0 \/ y[1] = 0 THEN <<0, 1>>
              ELSE <<(x[1] \div g1) * (y[1] \div g2), (x[2] \div g2) * (y[2] \div g1)>>
    IN  Norm(a)

RDivInt(x, n) == Norm(<<x[1], x[2] * n>>)

RLt(x, y) ==
    LET l == LCM(x[2], y[2])
    IN  x[1] * (l \div x[2]) < y[1] * (l \div y[2])

RGt(x, y) == RLt(y, x)

RMax(x, y) == IF RGt(y, x) THEN y ELSE x

RMin(x, y) == IF RLt(y, x) THEN y ELSE x

RAbs(x) == <<Abs(x[1]), x[2]>>

\* floor of the square root, by bisection on lo..hi
RECURSIVE ISqrtIn(_, _, _)
ISqrtIn(x, lo, hi) ==
    IF lo >= hi THEN lo
    ELSE LET mid == (lo + hi + 1) \div 2
         IN  IF mid * mid <= x THEN ISqrtIn(x, mid, hi) ELSE ISqrtIn(x, lo, mid - 1)

ISqrt(x) == ISqrtIn(x, 0, 46340)

Hypot(a, b) ==
    IF b = 0 THEN Abs(a)
    ELSE IF a = 0 THEN Abs(b)
    ELSE ISqrt(a * a + b * b)

----------------------------------------------------------------------------
(* Inputs *)

Str0      == <<"0">>
Str1      == <<"1">>
Str2      == <<"2">>
StrBad    == <<"x">>
StrNeg3   == <<"-", "3">>
Str110600 == <<"1", "1", "0", "6", "0", "0">>
Str250000 == <<"2", "5", "0", "0", "0", "0">>
StrProg   == <<"G">>
StrPath   == <<"k">>

DwellArgs  == {Str1, Str2, StrBad, StrNeg3}
LengthArgs == {Str110600, Str250000, StrBad}

ArgvSet ==
    {<<StrProg>>, <<StrProg, Str2, Str0>>, <<StrProg, Str2, Str0, StrPath, StrPath>>}
    \cup {<<StrProg, d, l, StrPath>> : d \in DwellArgs, l \in LengthArgs}

\* samples <<longitude, latitude, altitude>> a coordinate line may carry
Points == {<<R(0), R(0), R(0)>>, <<R(0), R(1), R(0)>>, <<R(0), R(2), R(0)>>,
           <<R(1), R(0), R(10)>>}

WarmPoint == <<R(0), R(0), R(0)>>

BlankLine == <<>>

RECURSIVE SeqsUpTo(_, _)
SeqsUpTo(S, n) ==
    IF n = 0 THEN {<<>>}
    ELSE LET shorter == SeqsUpTo(S, n - 1)
         IN  shorter \cup {Append(s, e) : s \in {t \in shorter : Len(t) = n - 1}, e \in S}

Repeat(e, n) == [k \in 1 .. n |-> e]

\* number of warm-up lines before the body: one short of the trim, exactly the
\* trim, and enough for the body to straddle the end of the stationary window
Leads == {TrimCount - 1, TrimCount, TrimCount + WindowSize - 1}

\* the lines of the <coordinates> element of a track file: the text starts and
\* ends with a line break, so the first and the last line are blank
KmlFiles ==
    {<<BlankLine>> \o Repeat(WarmPoint, w) \o body \o <<BlankLine>> :
        w \in Leads, body \in SeqsUpTo(Points, MaxLen)}

----------------------------------------------------------------------------
(* int(): an optional sign followed by decimal digits; anything else raises *)

DigitVal == [c \in {"0", "1", "2", "3", "4", "5", "6", "7", "8", "9"} |->
                CASE c = "0" -> 0 [] c = "1" -> 1 [] c = "2" -> 2 [] c = "3" -> 3
                  [] c = "4" -> 4 [] c = "5" -> 5 [] c = "6" -> 6 [] c = "7" -> 7
                  [] c = "8" -> 8 [] c = "9" -> 9]

RECURSIVE DigitsValue(_, _)
DigitsValue(s, acc) ==
    IF s = <<>> THEN acc ELSE DigitsValue(Tail(s), 10 * acc + DigitVal[Head(s)])

IsDigits(s) == s # <<>> /\ \A k \in 1 .. Len(s) : s[k] \in DOMAIN DigitVal

IntOk(s) ==
    \/ IsDigits(s)
    \/ s # <<>> /\ Head(s) \in {"-", "+"} /\ IsDigits(Tail(s))

IntValue(s) ==
    IF Head(s) = "-" THEN -DigitsValue(Tail(s), 0)
    ELSE IF Head(s) = "+" THEN DigitsValue(Tail(s), 0)
    ELSE DigitsValue(s, 0)

----------------------------------------------------------------------------
(* State after construction *)

Unset == <<>>

NoMono == [phase |-> 0]

LsInit == [lat_start |-> Unset, lat_stop |-> Unset, long_start |-> Unset,
           long_stop |-> Unset, lat_dir |-> "none", long_dir |-> "none",
           lat_range |-> Unset, long_range |-> Unset,
           ideal_line |-> 0, error |-> 0, mse_long |-> Unset, mse_lat |-> Unset,
           display_ax |-> 0, display_ln |-> 0, i |-> 0]

LoopInit == [consumed |-> 0, i |-> 0, j |-> 0, cord1 |-> Unset]

Init ==
    /\ argv \in ArgvSet
    /\ pc = "start"
    /\ err = "none"
    /\ out = <<>>
    /\ dwell_time_minutes = Unset
    /\ line_length_meters = Unset
    /\ frames = <<>>
    /\ file = 0
    /\ long = <<>>
    /\ lat = <<>>
    /\ all_combos = <<>>
    /\ maximum = Unset
    /\ minimum = Unset
    /\ loop = LoopInit
    /\ ls = LsInit
    /\ rmse = Unset
    /\ mono = NoMono

Line(text, value) == [line |-> text, value |-> value]

Banner(text) == Line(text, Unset)

----------------------------------------------------------------------------
(* main, lines 198-204: argument validation *)

DwellTooShortLoose(d) == d < MinDwell - 1

DwellTooShort(d) == d < MinDwell

Validate ==
    /\ pc = "start"
    /\ UNCHANGED <<argv, out, frames, file, long, lat, all_combos, maximum, minimum,
                   loop, ls, rmse, mono>>
    /\ IF Len(argv) # ArgCount
       THEN /\ pc' = "raised" /\ err' = "ValueError"
            /\ UNCHANGED <<dwell_time_minutes, line_length_meters>>
       ELSE IF ~IntOk(argv[2])
       THEN /\ pc' = "raised" /\ err' = "ValueError"
            /\ UNCHANGED <<dwell_time_minutes, line_length_meters>>
       ELSE IF DwellTooShort(IntValue(argv[2]))
       THEN /\ pc' = "raised" /\ err' = "ValueError"
            /\ dwell_time_minutes' = IntValue(argv[2])
            /\ UNCHANGED line_length_meters
       ELSE IF ~IntOk(argv[3])
       THEN /\ pc' = "raised" /\ err' = "ValueError"
            /\ dwell_time_minutes' = IntValue(argv[2])
            /\ UNCHANGED line_length_meters
       ELSE /\ pc' = "read" /\ err' = err
            /\ dwell_time_minutes' = IntValue(argv[2])
            /\ line_length_meters' = IntValue(argv[3])

----------------------------------------------------------------------------
(* read_ublox, lines 49-69, and the banner printed by main, lines 207-214 *)

\* lines 53-58: keep the lines that split into three fields
HasThreeFields(line) == Len(line) = FieldCount

CoordinateRows(lines) == SelectSeq(lines, HasThreeFields)

\* lines 61-63: s[20:]
DropFirst(s, k) == IF Len(s) <= k THEN <<>> ELSE SubSeq(s, k + 1, Len(s))

\* s[:k]
TakeFirst(s, k) == IF Len(s) <= k THEN s ELSE SubSeq(s, 1, k)

read_ublox(lines) == DropFirst(CoordinateRows(lines), TrimCount)

ReadUblox ==
    /\ pc = "read"
    /\ \E kml \in KmlFiles :
          /\ frames' = <<read_ublox(kml)>>
          /\ file' = 1
    /\ out' = out \o <<Banner("KML Analysis Results"), Banner("PRECISION")>>
    /\ pc' = "window"
    /\ UNCHANGED <<argv, err, dwell_time_minutes, line_length_meters, long, lat,
                   all_combos, maximum, minimum, loop, ls, rmse, mono>>

----------------------------------------------------------------------------
(* position_diff, line 83.  geopy's geodesic on the WGS-84 ellipsoid is     *)
(* carried as the planar distance near the equator: a degree of latitude is *)
(* LatHm and a degree of longitude LonHm hundred metres long; the result is *)
(* in metres.  geopy takes (latitude, longitude), position_diff takes       *)
(* (longitude, latitude) and swaps.                                         *)

geodesic_m(p, q) ==
    LET dlat == RSub(p[1], q[1])
        dlon == RSub(p[2], q[2])
        d    == LCM(dlat[2], dlon[2])
        a    == dlat[1] * (d \div dlat[2])
        b    == dlon[1] * (d \div dlon[2])
    IN  Norm(<<HmToMeter * Hypot(a * LatHm, b * LonHm), d>>)

position_diff(testcord, targetcord) ==
    geodesic_m(<<testcord[2], testcord[1]>>, <<targetcord[2], targetcord[1]>>)

----------------------------------------------------------------------------
(* main, lines 219-222: the stationary window.  cords = zip(long, lat) is  *)
(* an iterator: loop.consumed is the number of items taken from it so far. *)

Column(rows, c) == [k \in 1 .. Len(rows) |-> rows[k][c]]

zip(a, b) == [k \in 1 .. (IF Len(a) < Len(b) THEN Len(a) ELSE Len(b)) |-> <<a[k], b[k]>>]

Window ==
    /\ pc = "window"
    /\ long' = Column(TakeFirst(frames[file], WindowSize), 1)
    /\ lat' = Column(TakeFirst(frames[file], WindowSize), 2)
    /\ loop' = LoopInit
    /\ pc' = "combos_outer"
    /\ UNCHANGED <<argv, err, out, dwell_time_minutes, line_length_meters, frames,
                   file, all_combos, maximum, minimum, ls, rmse, mono>>

(* main, lines 241-246.  Both loops draw from the one iterator cords, and   *)
(* each enumerate() numbers from 0 the items that it takes itself: loop.i   *)
(* is the outer number, loop.j the inner one.                               *)

\* line 243: the outer loop asks cords for its next item
OuterNext ==
    /\ pc = "combos_outer"
    /\ IF loop.consumed >= Len(zip(long, lat))
       THEN /\ pc' = "diffs"
            /\ loop' = [loop EXCEPT !.i = 0]
       ELSE /\ pc' = "combos_inner"
            /\ loop' = [loop EXCEPT !.consumed = @ + 1, !.j = 0,
                                    !.cord1 = zip(long, lat)[loop.consumed + 1]]
    /\ UNCHANGED <<argv, err, out, dwell_time_minutes, line_length_meters, frames,
                   file, long, lat, all_combos, maximum, minimum, ls, rmse, mono>>

\* lines 244-246: the inner loop asks the same iterator for its next item
InnerNext ==
    /\ pc = "combos_inner"
    /\ IF loop.consumed >= Len(zip(long, lat))
       THEN /\ pc' = "combos_outer"
            /\ loop' = [loop EXCEPT !.i = @ + 1]
            /\ all_combos' = all_combos
       ELSE /\ pc' = pc
            /\ loop' = [loop EXCEPT !.consumed = @ + 1, !.j = @ + 1]
            /\ all_combos' =
                 IF loop.j # loop.i
                 THEN Append(all_combos, <<loop.cord1, zip(long, lat)[loop.consumed + 1]>>)
                 ELSE all_combos
    /\ UNCHANGED <<argv, err, out, dwell_time_minutes, line_length_meters, frames,
                   file, long, lat, maximum, minimum, ls, rmse, mono>>

(* main, lines 248-250 *)

DistanceStep ==
    /\ pc = "diffs"
    /\ IF loop.i >= Len(all_combos)
       THEN /\ pc' = "scan_init"
            /\ UNCHANGED <<all_combos, loop>>
       ELSE /\ pc' = pc
            /\ all_combos' = [all_combos EXCEPT ![loop.i + 1] =
                                 Append(@, position_diff(@[1], @[2]))]
            /\ loop' = [loop EXCEPT !.i = @ + 1]
    /\ UNCHANGED <<argv, err, out, dwell_time_minutes, line_length_meters, frames,
                   file, long, lat, maximum, minimum, ls, rmse, mono>>

(* main, lines 252-259 *)

ScanInit ==
    /\ pc = "scan_init"
    /\ maximum' = R(0)
    /\ minimum' = R(0)
    /\ loop' = [loop EXCEPT !.i = 0]
    /\ pc' = "scan"
    /\ UNCHANGED <<argv, err, out, dwell_time_minutes, line_length_meters, frames,
                   file, long, lat, all_combos, ls, rmse, mono>>

\* line 259, `minimum - cord[2]`: an expression statement, its value is dropped
MinimumStatement(mn, d) == mn

ScanStep ==
    /\ pc = "scan"
    /\ IF loop.i >= Len(all_combos)
       THEN /\ pc' = "report_precision"
            /\ UNCHANGED <<maximum, minimum, loop>>
       ELSE LET cord == all_combos[loop.i + 1]
            IN  /\ pc' = pc
                /\ loop' = [loop EXCEPT !.i = @ + 1]
                /\ IF RGt(cord[3], maximum)
                   THEN maximum' = cord[3] /\ minimum' = minimum
                   ELSE IF RLt(cord[3], minimum)
                   THEN maximum' = maximum /\ minimum' = MinimumStatement(minimum, cord[3])
                   ELSE maximum' = maximum /\ minimum' = minimum
    /\ UNCHANGED <<argv, err, out, dwell_time_minutes, line_length_meters, frames,
                   file, long, lat, all_combos, ls, rmse, mono>>

(* main, lines 261-265 *)

PrecisionBoundSwapped(mx, mn) == RDivInt(RSub(mn, mx), 2)

PrecisionBound(mx, mn) == RDivInt(RSub(mx, mn), 2)

ReportPrecision ==
    /\ pc = "report_precision"
    /\ out' = out \o <<Line("Max delta", PrecisionBound(maximum, minimum)),
                       Banner("ACCURACY")>>
    /\ pc' = "accuracy"
    /\ UNCHANGED <<argv, err, dwell_time_minutes, line_length_meters, frames, file,
                   long, lat, all_combos, maximum, minimum, loop, ls, rmse, mono>>

(* main, lines 267-277 *)

\* iloc[i, c] with 0-based i and c; out of bounds raises IndexError
InBounds(rows, i) == 0 <= i /\ i < Len(rows)

iloc(rows, i, c) == rows[i + 1][c + 1]

MeasuredLength(rows) ==
    position_diff(<<iloc(rows, 0, 0), iloc(rows, 0, 1)>>,
                  <<iloc(rows, Len(rows) - 1, 0), iloc(rows, Len(rows) - 1, 1)>>)

LengthDeltaSwapped(target, length) == RSub(length, R(target))

LengthDelta(target, length) == RSub(R(target), length)

Accuracy ==
    /\ pc = "accuracy"
    /\ IF ~InBounds(frames[file], 0)
       THEN /\ pc' = "raised" /\ err' = "IndexError"
            /\ out' = out
       ELSE /\ pc' = "ls_start" /\ err' = err
            /\ LET length == MeasuredLength(frames[file])
               IN  out' = out \o
                      <<Line("Target line length", R(line_length_meters)),
                        Line("Measured line length", length),
                        Line("Line length delta", LengthDelta(line_length_meters, length)),
                        Banner("STRAIGHTNESS")>>
    /\ UNCHANGED <<argv, dwell_time_minutes, line_length_meters, frames, file,
                   long, lat, all_combos, maximum, minimum, loop, ls, rmse, mono>>

----------------------------------------------------------------------------
(* line_straightness.  The argument cordf is the frame `file` refers to;    *)
(* ls.i is the index of the row the current loop is at.                     *)

\* DataFrame.copy(): a new frame with the same rows
DataFrameAlias(fr, ref) == [frames |-> fr, ref |-> ref]

DataFrameCopy(fr, ref) == [frames |-> Append(fr, fr[ref]), ref |-> Len(fr) + 1]

\* frame.iloc[i, c] = v
SetCell(fr, ref, i, c, v) == [fr EXCEPT ![ref][i + 1][c + 1] = v]

(* lines 99-117: end points, directions and ranges *)

Direction(start, stop) == IF RGt(start, stop) THEN "DOWN" ELSE "UP"

Range(start, stop) == RSub(RMax(start, stop), RMin(start, stop))

LS_Start ==
    /\ pc = "ls_start"
    /\ IF ~InBounds(frames[file], 0)
       THEN /\ pc' = "raised" /\ err' = "IndexError" /\ ls' = ls
       ELSE LET rows       == frames[file]
                lat_start  == iloc(rows, 0, 1)
                lat_stop   == iloc(rows, Len(rows) - 1, 1)
                long_start == iloc(rows, 0, 0)
                long_stop  == iloc(rows, Len(rows) - 1, 0)
            IN  /\ ls' = [ls EXCEPT !.lat_start = lat_start, !.lat_stop = lat_stop,
                                    !.long_start = long_start, !.long_stop = long_stop,
                                    !.lat_dir = Direction(lat_start, lat_stop),
                                    !.long_dir = Direction(long_start, long_stop),
                                    !.lat_range = Range(lat_start, lat_stop),
                                    !.long_range = Range(long_start, long_stop)]
                /\ pc' = "ls_ideal_copy" /\ err' = err
    /\ UNCHANGED <<argv, out, dwell_time_minutes, line_length_meters, frames, file,
                   long, lat, all_combos, maximum, minimum, loop, rmse, mono>>

(* lines 119-130: the ideal line *)

LS_IdealCopy ==
    /\ pc = "ls_ideal_copy"
    /\ LET c == DataFrameCopy(frames, file)
       IN  /\ frames' = c.frames
           /\ ls' = [ls EXCEPT !.ideal_line = c.ref, !.i = 0]
    /\ pc' = "ls_ideal"
    /\ UNCHANGED <<argv, err, out, dwell_time_minutes, line_length_meters, file,
                   long, lat, all_combos, maximum, minimum, loop, rmse, mono>>

\* line 122, len(ideal_line-1): subtracting 1 from a frame subtracts it from
\* every cell and leaves the number of rows as it is
LenOfFrameLessOne(n) == n - 1

LenOfFrameMinusOne(n) == n

IdealStep(range, n) == RDivInt(range, n)

Advance(prev, dir, step) == IF dir = "UP" THEN RAdd(prev, step) ELSE RSub(prev, step)

\* lines 122-130: the body of the loop for row i of a frame of n rows
IdealBody(fr, ref, i, n, l) ==
    IF i # 0 /\ i # LenOfFrameMinusOne(n)
    THEN LET f1 == SetCell(fr, ref, i, 1,
                       Advance(iloc(fr[ref], i - 1, 1), l.lat_dir,
                               IdealStep(l.lat_range, n)))
         IN  SetCell(f1, ref, i, 0,
                     Advance(iloc(f1[ref], i - 1, 0), l.long_dir,
                             IdealStep(l.long_range, n)))
    ELSE fr

LS_IdealRow ==
    /\ pc = "ls_ideal"
    /\ IF ls.i >= Len(frames[ls.ideal_line])
       THEN /\ pc' = "ls_error_copy"
            /\ UNCHANGED <<frames, ls>>
       ELSE /\ pc' = pc
            /\ frames' = IdealBody(frames, ls.ideal_line, ls.i,
                                   Len(frames[ls.ideal_line]), ls)
            /\ ls' = [ls EXCEPT !.i = @ + 1]
    /\ UNCHANGED <<argv, err, out, dwell_time_minutes, line_length_meters, file,
                   long, lat, all_combos, maximum, minimum, loop, rmse, mono>>

(* lines 132-136: squared residuals *)

LS_ErrorCopy ==
    /\ pc = "ls_error_copy"
    /\ LET c == DataFrameCopy(frames, file)
       IN  /\ frames' = c.frames
           /\ ls' = [ls EXCEPT !.error = c.ref, !.i = 0]
    /\ pc' = "ls_error"
    /\ UNCHANGED <<argv, err, out, dwell_time_minutes, line_length_meters, file,
                   long, lat, all_combos, maximum, minimum, loop, rmse, mono>>

SquaredResidual(a, b) == RMul(RSub(a, b), RSub(a, b))

ErrorBody(fr, error, ideal_line, cordf, i) ==
    LET f1 == SetCell(fr, error, i, 0,
                  SquaredResidual(iloc(fr[ideal_line], i, 0), iloc(fr[cordf], i, 0)))
    IN  SetCell(f1, error, i, 1,
                SquaredResidual(iloc(f1[ideal_line], i, 1), iloc(f1[cordf], i, 1)))

LS_ErrorRow ==
    /\ pc = "ls_error"
    /\ IF ls.i >= Len(frames[file])
       THEN /\ pc' = "ls_mse"
            /\ UNCHANGED <<frames, ls>>
       ELSE /\ pc' = pc
            /\ frames' = ErrorBody(frames, ls.error, ls.ideal_line, file, ls.i)
            /\ ls' = [ls EXCEPT !.i = @ + 1]
    /\ UNCHANGED <<argv, err, out, dwell_time_minutes, line_length_meters, file,
                   long, lat, all_combos, maximum, minimum, loop, rmse, mono>>

(* lines 138-155: mean, conversion to a length, combination, root *)

\* error.sum(): the sum of column c over the rows lo..hi
RECURSIVE ColumnSum(_, _, _, _)
ColumnSum(rows, c, lo, hi) ==
    IF lo > hi THEN R(0)
    ELSE IF lo = hi THEN rows[lo][c + 1]
    ELSE LET mid == (lo + hi) \div 2
         IN  RAdd(ColumnSum(rows, c, lo, mid), ColumnSum(rows, c, mid + 1, hi))

MeanSquare(rows, c) == RDivInt(ColumnSum(rows, c, 1, Len(rows)), Len(rows))

DegToLength(mse) == RMul(mse, R(DegToKm))

CombinedMseDifference(mse_lat, mse_long) == RDivInt(RSub(mse_lat, mse_long), 2)

CombinedMse(mse_lat, mse_long) == RDivInt(RAdd(mse_lat, mse_long), 2)

LS_Mse ==
    /\ pc = "ls_mse"
    /\ LET mse_long == DegToLength(MeanSquare(frames[ls.error], 0))
           mse_lat  == DegToLength(MeanSquare(frames[ls.error], 1))
       IN  /\ ls' = [ls EXCEPT !.mse_long = mse_long, !.mse_lat = mse_lat]
           /\ rmse' = CombinedMse(mse_lat, mse_long)
    /\ pc' = "ls_display_ax_copy"
    /\ UNCHANGED <<argv, err, out, dwell_time_minutes, line_length_meters, frames,
                   file, long, lat, all_combos, maximum, minimum, loop, mono>>

(* lines 157-174: the two tables handed to the plot *)

DisplayBody(fr, display, from, i) ==
    IF i = 0
    THEN SetCell(SetCell(fr, display, 0, 0, R(0)), display, 0, 1, R(0))
    ELSE LET f1 == SetCell(fr, display, i, 0,
                       RAbs(position_diff(<<iloc(fr[from], 0, 0), R(0)>>,
                                          <<iloc(fr[from], i, 0), R(0)>>)))
         IN  SetCell(f1, display, i, 1,
                     RAbs(position_diff(<<R(0), iloc(f1[from], 0, 1)>>,
                                        <<R(0), iloc(f1[from], i, 1)>>)))

LS_DisplayAxCopy ==
    /\ pc = "ls_display_ax_copy"
    /\ LET c == DataFrameCopy(frames, file)
       IN  /\ frames' = c.frames
           /\ ls' = [ls EXCEPT !.display_ax = c.ref, !.i = 0]
    /\ pc' = "ls_display_ax"
    /\ UNCHANGED <<argv, err, out, dwell_time_minutes, line_length_meters, file,
                   long, lat, all_combos, maximum, minimum, loop, rmse, mono>>

LS_DisplayAxRow ==
    /\ pc = "ls_display_ax"
    /\ IF ls.i >= Len(frames[ls.display_ax])
       THEN /\ pc' = "ls_display_ln_copy"
            /\ UNCHANGED <<frames, ls>>
       ELSE /\ pc' = pc
            /\ frames' = DisplayBody(frames, ls.display_ax, file, ls.i)
            /\ ls' = [ls EXCEPT !.i = @ + 1]
    /\ UNCHANGED <<argv, err, out, dwell_time_minutes, line_length_meters, file,
                   long, lat, all_combos, maximum, minimum, loop, rmse, mono>>

LS_DisplayLnCopy ==
    /\ pc = "ls_display_ln_copy"
    /\ LET c == DataFrameCopy(frames, ls.ideal_line)
       IN  /\ frames' = c.frames
           /\ ls' = [ls EXCEPT !.display_ln = c.ref, !.i = 0]
    /\ pc' = "ls_display_ln"
    /\ UNCHANGED <<argv, err, out, dwell_time_minutes, line_length_meters, file,
                   long, lat, all_combos, maximum, minimum, loop, rmse, mono>>

\* the loop ends at line 174; lines 176-195 draw the plot and return rmse
LS_DisplayLnRow ==
    /\ pc = "ls_display_ln"
    /\ IF ls.i >= Len(frames[ls.display_ln])
       THEN /\ pc' = "ls_ret"
            /\ UNCHANGED <<frames, ls>>
       ELSE /\ pc' = pc
            /\ frames' = DisplayBody(frames, ls.display_ln, ls.ideal_line, ls.i)
            /\ ls' = [ls EXCEPT !.i = @ + 1]
    /\ UNCHANGED <<argv, err, out, dwell_time_minutes, line_length_meters, file,
                   long, lat, all_combos, maximum, minimum, loop, rmse, mono>>

(* main, lines 280-282 *)

ReportStraightness ==
    /\ pc = "ls_ret"
    /\ mono = NoMono
    /\ out' = out \o <<Line("Root Mean Squared Error", rmse)>>
    /\ pc' = "done"
    /\ UNCHANGED <<argv, err, dwell_time_minutes, line_length_meters, frames, file,
                   long, lat, all_combos, maximum, minimum, loop, ls, rmse, mono>>

LineStraightness ==
    \/ LS_Start
    \/ LS_IdealCopy
    \/ LS_IdealRow
    \/ LS_ErrorCopy
    \/ LS_ErrorRow
    \/ LS_Mse
    \/ LS_DisplayAxCopy
    \/ LS_DisplayAxRow
    \/ LS_DisplayLnCopy
    \/ LS_DisplayLnRow

Next ==
    \/ Validate
    \/ ReadUblox
    \/ Window
    \/ OuterNext
    \/ InnerNext
    \/ DistanceStep
    \/ ScanInit
    \/ ScanStep
    \/ ReportPrecision
    \/ Accuracy
    \/ LineStraightness
    \/ ReportStraightness

Spec == Init /\ [][Next]_vars

----------------------------------------------------------------------------
(* Sensitivity experiment on line_straightness: the function is applied to  *)
(* a perfectly linear track whose interior samples are shifted by k1*p, and *)
(* then to the same track with the interior shifted by k2*p.                *)

\* direction of travel per sample, <<longitude, latitude>> in degrees
Steps == {<<0, 1>>, <<1, 0>>, <<1, 1>>, <<1, -1>>, <<-1, 0>>, <<2, 1>>}

Perp(d) == <<-d[2], d[1]>>

\* <<step, p>> with p nonzero and perpendicular to the step
MonoDirs == {<<d, Perp(d)>> : d \in Steps} \cup {<<<<0, 0>>, <<1, 0>>>>}

LinearTrack(d, n) == [i \in 1 .. n |-> <<R((i - 1) * d[1]), R((i - 1) * d[2]), R(0)>>]

OffsetTrack(base, p, k) ==
    [i \in 1 .. Len(base) |->
        IF i = 1 \/ i = Len(base) THEN base[i]
        ELSE <<RAdd(base[i][1], R(k * p[1])), RAdd(base[i][2], R(k * p[2])), base[i][3]>>]

MonoInit ==
    /\ argv = <<StrProg>>
    /\ pc = "ls_start"
    /\ err = "none"
    /\ out = <<>>
    /\ dwell_time_minutes = Unset
    /\ line_length_meters = Unset
    /\ \E dp \in MonoDirs, n \in 3 .. MaxMonoLen, k1 \in -MaxK .. MaxK, k2 \in -MaxK .. MaxK :
          /\ mono = [phase |-> 1, base |-> LinearTrack(dp[1], n), p |-> dp[2],
                     k1 |-> k1, k2 |-> k2, rmse1 |-> Unset, rmse2 |-> Unset]
          /\ frames = <<OffsetTrack(LinearTrack(dp[1], n), dp[2], k1)>>
    /\ file = 1
    /\ long = <<>>
    /\ lat = <<>>
    /\ all_combos = <<>>
    /\ maximum = Unset
    /\ minimum = Unset
    /\ loop = LoopInit
    /\ ls = LsInit
    /\ rmse = Unset

MonoSecondRun ==
    /\ pc = "ls_ret"
    /\ mono.phase = 1
    /\ mono' = [mono EXCEPT !.phase = 2, !.rmse1 = rmse]
    /\ frames' = <<OffsetTrack(mono.base, mono.p, mono.k2)>>
    /\ ls' = LsInit
    /\ pc' = "ls_start"
    /\ UNCHANGED <<argv, err, out, dwell_time_minutes, line_length_meters, file,
                   long, lat, all_combos, maximum, minimum, loop, rmse>>

MonoFinish ==
    /\ pc = "ls_ret"
    /\ mono.phase = 2
    /\ mono' = [mono EXCEPT !.phase = 3, !.rmse2 = rmse]
    /\ pc' = "mono_done"
    /\ UNCHANGED <<argv, err, out, dwell_time_minutes, line_length_meters, frames,
                   file, long, lat, all_combos, maximum, minimum, loop, ls, rmse>>

MonoNext ==
    \/ LineStraightness
    \/ MonoSecondRun
    \/ MonoFinish

MonoSpec == MonoInit /\ [][MonoNext]_vars

----------------------------------------------------------------------------
(* Properties *)

Printed(text) == \E k \in 1 .. Len(out) : out[k].line = text

OutValue(text) == out[CHOOSE k \in 1 .. Len(out) : out[k].line = text].value

StationaryWindow == TakeFirst(frames[file], WindowSize)

ScannedDistances == {all_combos[k][3] : k \in 1 .. Len(all_combos)}

Largest(S) == CHOOSE m \in S : \A x \in S : ~RGt(x, m)

Smallest(S) == CHOOSE m \in S : \A x \in S : ~RLt(x, m)

\* C1: for a stationary window of n >= 2 samples the scan is built from
\* exactly n*(n-1) pairs, one per ordered pair (i, j) with i # j.
C1_AllOrderedPairs ==
    (pc = "diffs" /\ Len(long) >= 2) => Len(all_combos) = Len(long) * (Len(long) - 1)

\* C2: the printed precision bound is (largest - smallest) / 2 of the pairwise
\* distances that were scanned, the smallest being the true minimum.
C2_HalfRangeOfScanned ==
    (Printed("Max delta") /\ all_combos # <<>>) =>
        OutValue("Max delta") =
            RDivInt(RSub(Largest(ScannedDistances), Smallest(ScannedDistances)), 2)

AllIdentical(rows) == \A i, j \in 1 .. Len(rows) : rows[i] = rows[j]

\* C3: the printed precision bound is never negative, and it is 0 when all
\* the samples of the stationary window are identical.
C3_PrecisionNonNegative ==
    Printed("Max delta") =>
        /\ ~RLt(OutValue("Max delta"), R(0))
        /\ AllIdentical(StationaryWindow) => OutValue("Max delta") = R(0)

C3_Witness ==
    /\ Printed("Max delta")
    /\ Len(StationaryWindow) >= 3
    /\ AllIdentical(StationaryWindow)
    /\ Len(all_combos) >= 1
    /\ OutValue("Max delta") = R(0)

\* C4: measured_m is the distance from the first to the last sample of the
\* trimmed track (longitude and latitude only), delta_m is target - measured,
\* so a measured length above the target gives a negative delta and one below
\* the target a positive delta.
C4_AccuracyDelta ==
    Printed("Line length delta") =>
        LET rows     == frames[file]
            n        == Len(rows)
            target   == R(line_length_meters)
            measured == OutValue("Measured line length")
            delta    == OutValue("Line length delta")
        IN  /\ measured = position_diff(<<rows[1][1], rows[1][2]>>, <<rows[n][1], rows[n][2]>>)
            /\ OutValue("Target line length") = target
            /\ RAdd(delta, measured) = target
            /\ RGt(measured, target) => RLt(delta, R(0))
            /\ RLt(measured, target) => RGt(delta, R(0))

C4_Witness ==
    /\ Printed("Line length delta")
    /\ Len(frames[file]) >= 2
    /\ line_length_meters > 0
    /\ RGt(OutValue("Measured line length"), R(line_length_meters))
    /\ RLt(OutValue("Line length delta"), R(0))

\* every sample on the segment from the first to the last, at equal spacing
PerfectlyLinear(rows) ==
    LET n == Len(rows)
    IN  \A i \in 1 .. n : \A c \in 1 .. 2 :
            RMul(R(n - 1), RSub(rows[i][c], rows[1][c]))
                = RMul(R(i - 1), RSub(rows[n][c], rows[1][c]))

\* C5: line_straightness returns an RMSE of 0 for every perfectly linear track
\* of at least two samples.
C5_LinearTrackHasZeroRmse ==
    (pc = "ls_ret" /\ Len(frames[file]) >= 2 /\ PerfectlyLinear(frames[file]))
        => rmse = R(0)

\* C6: with fewer than 2 samples no estimator reports a result.
C6_NoResultFromShortTrack ==
    (file # 0 /\ Len(frames[file]) < 2) =>
        /\ ~Printed("Max delta")
        /\ ~Printed("Measured line length")
        /\ ~Printed("Root Mean Squared Error")

Sign(first, last) == IF RLt(first, last) THEN 1 ELSE IF RGt(first, last) THEN -1 ELSE 0

\* C7: the ideal line has the length of the track, starts at its first point,
\* every later point (the last included) is its predecessor plus
\* s * |last - first| / n per axis, so that its last point is
\* first + (n-1) * (last - first) / n, which is the track's last point only
\* when first = last in that axis.
C7_IdealLineRecurrence ==
    pc = "ls_error_copy" =>
        LET src   == frames[file]
            ideal == frames[ls.ideal_line]
            n     == Len(src)
        IN  /\ Len(ideal) = n
            /\ ideal[1] = src[1]
            /\ \A c \in 1 .. 2 :
                 LET first == src[1][c]
                     last  == src[n][c]
                     step  == RDivInt(RMul(R(Sign(first, last)), RAbs(RSub(last, first))), n)
                 IN  /\ \A i \in 2 .. n : ideal[i][c] = RAdd(ideal[i - 1][c], step)
                     /\ ideal[n][c] = RAdd(first, RDivInt(RMul(R(n - 1), RSub(last, first)), n))
                     /\ ideal[n][c] = last => first = last

C7_Witness ==
    /\ pc = "ls_error_copy"
    /\ Len(frames[file]) >= 3
    /\ ls.lat_dir = "UP" /\ RGt(ls.lat_range, R(0))
    /\ ls.long_dir = "DOWN"
    /\ frames[ls.ideal_line][Len(frames[file])] # frames[file][Len(frames[file])]

\* C8: on a perfectly linear track of at least 3 samples whose interior is
\* shifted by k*p, p perpendicular to the direction of travel, the RMSE grows
\* strictly with |k|.
C8_RmseGrowsWithOffset ==
    (pc = "mono_done" /\ Abs(mono.k1) < Abs(mono.k2)) => RLt(mono.rmse1, mono.rmse2)

C8_Witness ==
    /\ pc = "mono_done"
    /\ mono.k1 # 0
    /\ Abs(mono.k1) < Abs(mono.k2)
    /\ mono.p[1] # 0 /\ mono.p[2] # 0
    /\ RLt(mono.rmse1, mono.rmse2)

\* C9: once read_ublox has returned the track, no step of main or of
\* line_straightness changes any of its samples.
C9_TrackNeverMutated ==
    [][file # 0 => (file' = file /\ frames'[file'] = frames[file])]_vars

C9_Witness ==
    /\ pc = "done"
    /\ Len(frames) = 5
    /\ frames[ls.ideal_line] # frames[file]
    /\ frames[ls.error] # frames[file]
    /\ frames[ls.display_ax] # frames[file]

ArgCountWrong == Len(argv) # 4

DwellBelowTwo == Len(argv) = 4 /\ IntOk(argv[2]) /\ IntValue(argv[2]) < 2

\* C10: with an argument count other than three, or a dwell time below 2
\* minutes, main raises ValueError with no file read and nothing printed; the
\* file is read and lines are printed only when both checks pass.
C10_ValidationFirst ==
    /\ (file # 0 \/ out # <<>>) => (~ArgCountWrong /\ ~DwellBelowTwo)
    /\ (pc # "start" /\ (ArgCountWrong \/ DwellBelowTwo)) =>
          (pc = "raised" /\ err = "ValueError" /\ file = 0 /\ out = <<>>)

C10_Witness ==
    /\ pc = "raised"
    /\ err = "ValueError"
    /\ DwellBelowTwo
    /\ IntValue(argv[2]) = 1
    /\ file = 0

====
